---- MODULE Spec2Model ----
(***************************************************************************)
(* pbkdf2-pw: build(options) returns hasher(opts, callback), which fills   *)
(* in a missing password and salt from the random source and derives a    *)
(* PBKDF2 hash.  The repository ships two builds of the same module:      *)
(* src/index.ts (callback form of randomBytes, fastfall) and the compiled *)
(* JavaScript (synchronous randomBytes inside try/finally, fastfall-ts).  *)
(* One action of the model is one turn of the JavaScript event loop.      *)
(***************************************************************************)
EXTENDS Integers, Sequences, FiniteSets, TLC

\* ------------------------------------------------------------ bounds
\* The random source returns buffers filled with one of the bytes k * 85,
\* k in 0..MaxRandByte.
MaxRandByte == 1
\* The values of a configuration object that sets saltLength, iterations, keyLength.
OptSaltLength == 2
OptIterations == 1
OptKeyLength == 3

\* ------------------------------------------------------------ program constants
DefaultSaltLength == 64
DefaultIterations == 10000
DefaultKeyLength == 128
PassBytes == 10

\* A behaviour makes up to two calls of hasher, which may overlap, on up to
\* two request objects.
Calls == {1, 2}
Objs == {1, 2}

\* ------------------------------------------------------------ JavaScript values
\* A request field or callback argument: undefined, a string (sequence of
\* character codes) or a Buffer (sequence of bytes).
Undef == [t |-> "undefined", v |-> <<>>]
Str(s) == [t |-> "string", v |-> s]
Buf(b) == [t |-> "buffer", v |-> b]
\* The request object itself, as a step hands it to its continuation.
ObjRef == [t |-> "object", v |-> <<>>]

\* A numeric option: undefined or a number.
UndefN == [t |-> "undefined", n |-> 0]
Num(n) == [t |-> "number", n |-> n]

\* The digest option: undefined or a string.
UndefS == [t |-> "undefined", s |-> ""]
StrS(s) == [t |-> "string", s |-> s]

NoErr == "null"

\* ------------------------------------------------------------ base64
\* Character code of the i-th letter (1..64) of the base64 alphabet.
Alphabet(i) ==
    IF i <= 26 THEN 64 + i
    ELSE IF i <= 52 THEN 70 + i
    ELSE IF i <= 62 THEN i - 5
    ELSE IF i = 63 THEN 43 ELSE 47

PadChar == 61

\* Value of a character in the decoder's table, -1 for a character that is
\* no base64 letter ('-' and '_' are accepted for '+' and '/').
unbase64(c) ==
    IF c >= 65 /\ c <= 90 THEN c - 65
    ELSE IF c >= 97 /\ c <= 122 THEN c - 71
    ELSE IF c >= 48 /\ c <= 57 THEN c + 4
    ELSE IF c = 43 \/ c = 45 THEN 62
    ELSE IF c = 47 \/ c = 95 THEN 63
    ELSE -1

\* buffer.toString('base64'): every three bytes give four letters; a last
\* group of one or two bytes is padded with '='.
Base64Encode(b) ==
    [j \in 1..(4 * ((Len(b) + 2) \div 3)) |->
        LET g == 3 * ((j - 1) \div 4)
            k == (j - 1) % 4
            b1 == b[g + 1]
            b2 == IF g + 2 <= Len(b) THEN b[g + 2] ELSE 0
            b3 == IF g + 3 <= Len(b) THEN b[g + 3] ELSE 0
        IN  IF k = 0 THEN Alphabet(b1 \div 4 + 1)
            ELSE IF k = 1 THEN Alphabet((b1 % 4) * 16 + b2 \div 16 + 1)
            ELSE IF k = 2 THEN
                IF g + 2 <= Len(b) THEN Alphabet((b2 % 16) * 4 + b3 \div 64 + 1)
                ELSE PadChar
            ELSE IF g + 3 <= Len(b) THEN Alphabet((b3 % 64) + 1) ELSE PadChar]

\* The 6-bit values of a base64 string as the decoder reads it: '=' ends the
\* input, characters outside the alphabet are skipped.
Sextets(s) ==
    LET pads == {i \in 1..Len(s) : s[i] = PadChar}
        stop == IF pads = {} THEN Len(s)
                ELSE (CHOOSE i \in pads : \A j \in pads : i <= j) - 1
        letters == SelectSeq(SubSeq(s, 1, stop), LAMBDA c : unbase64(c) >= 0)
    IN  [i \in 1..Len(letters) |-> unbase64(letters[i])]

\* Every four 6-bit values give three bytes; a last group of two or three
\* gives one or two bytes, a last single value gives none.
SextetsToBytes(x) ==
    LET rest == Len(x) % 4
        n == 3 * (Len(x) \div 4) + (IF rest >= 2 THEN rest - 1 ELSE 0)
    IN  [j \in 1..n |->
            LET g == 4 * ((j - 1) \div 3)
                k == (j - 1) % 3
            IN  IF k = 0 THEN x[g + 1] * 4 + x[g + 2] \div 16
                ELSE IF k = 1 THEN (x[g + 2] % 16) * 16 + x[g + 3] \div 4
                ELSE (x[g + 3] % 4) * 64 + x[g + 4]]

\* Buffer.from(s, 'base64')
Base64Decode(s) == SextetsToBytes(Sextets(s))

\* ------------------------------------------------------------ external primitives
RECURSIVE SumTo(_, _)
SumTo(s, n) == IF n = 0 THEN 0 ELSE s[n] + SumTo(s, n - 1)
Sum(s) == SumTo(s, Len(s))

DigestCode(d) == IF d = "sha1" THEN 1 ELSE IF d = "sha256" THEN 2 ELSE 3

\* crypto.pbkdf2's derived key: a deterministic function of its arguments,
\* keyLen bytes long.
Derive(password, salt, iter, keyLen, dig) ==
    LET seed == Sum(password) * 7 + Len(password) * 3 + Sum(salt) * 13 + Len(salt) * 5
                + iter * 11 + DigestCode(dig) * 17
    IN  [i \in 1..keyLen |-> (seed + i * 31) % 256]

RandErrors == {"ERR_RANDOM"}
KdfErrors == {"ERR_PBKDF2"}

\* Outcomes of crypto.randomBytes(n): a buffer of n bytes, or an error.
RandOutcomes(n) ==
    {[err |-> NoErr, buf |-> [i \in 1..n |-> k * 85]] : k \in 0..MaxRandByte}
    \cup {[err |-> e, buf |-> <<>>] : e \in RandErrors}


\* ------------------------------------------------------------ state
VARIABLES
    supportsDigest,  \* the runtime can pass a digest to pbkdf2
    impl,            \* the build that is loaded: "src" (index.ts) or "dist" (compiled)
    built,           \* "no" before build(options), then "ok" (hasher returned) or "threw"
    options,         \* the argument build was called with
    saltLength, iterations, keyLength, digest,  \* the values build resolved
    objs,            \* the caller's request objects: [password, salt] each
    call             \* per call of hasher: its position and what it has done so far

vars == << supportsDigest, impl, built, options, saltLength, iterations, keyLength,
           digest, objs, call >>

cfgVars == << supportsDigest, impl, built, options, saltLength, iterations, keyLength,
              digest >>

\* ------------------------------------------------------------ build(options)
Fields == {"saltLength", "iterations", "keyLength", "digest"}

NoOptions ==
    [given |-> FALSE, has |-> {}, saltLength |-> 0, iterations |-> 0, keyLength |-> 0,
     digest |-> ""]

\* The configuration objects a caller passes: any subset of the four options.
OptionObjects ==
    { [given |-> TRUE, has |-> h,
       saltLength |-> IF "saltLength" \in h THEN OptSaltLength ELSE 0,
       iterations |-> IF "iterations" \in h THEN OptIterations ELSE 0,
       keyLength |-> IF "keyLength" \in h THEN OptKeyLength ELSE 0,
       digest |-> d] :
      h \in SUBSET Fields, d \in {"", "sha1", "sha256"} }

OptionInputs ==
    {NoOptions} \cup { o \in OptionObjects : (o.digest = "") <=> ("digest" \notin o.has) }

\* options.<field> of a configuration object: undefined when the field is not set.
numberField(opts, f) == IF f \in opts.has THEN Num(opts[f]) ELSE UndefN
digestField(opts) == IF "digest" \in opts.has THEN StrS(opts.digest) ELSE UndefS

\* options ? options.<field> : <default>
resolveNumber(opts, f, dflt) == IF opts.given THEN numberField(opts, f) ELSE Num(dflt)
resolveDigest(opts) == IF opts.given THEN digestField(opts) ELSE StrS("sha1")

\* if (digest !== 'sha1' && !supportsDigest) throw ...
digestCheckThrows(dig, supported) == dig # StrS("sha1") /\ ~supported

build(opts) ==
    /\ built = "no"
    /\ options' = opts
    /\ saltLength' = resolveNumber(opts, "saltLength", DefaultSaltLength)
    /\ iterations' = resolveNumber(opts, "iterations", DefaultIterations)
    /\ keyLength' = resolveNumber(opts, "keyLength", DefaultKeyLength)
    /\ digest' = resolveDigest(opts)
    /\ built' = IF digestCheckThrows(resolveDigest(opts), supportsDigest) THEN "threw" ELSE "ok"
    /\ UNCHANGED << supportsDigest, impl, objs, call >>

\* The resolved configuration is a Configuration of the data model: requests are
\* modelled for hashers whose four values are all set.
WellFormed ==
    /\ saltLength.t = "number" /\ iterations.t = "number" /\ keyLength.t = "number"
    /\ digest.t = "string"


\* ------------------------------------------------------------ hasher(opts, callback)
IdleCall ==
    [pc |-> "idle",        \* idle, genPass, genSalt, derive (a primitive is pending), done, threw
     obj |-> 0,            \* the request object passed as opts
     path |-> "none",      \* the branch hasher took
     inPw |-> Undef, inSalt |-> Undef,      \* the request's fields when hasher was called
     steps |-> <<>>,       \* the steps started, in order
     drawnPass |-> Undef, drawnSalt |-> Undef,  \* the buffers the random source gave this call
     rndErr |-> NoErr, rndErrStep |-> "none",  \* the error the random source reported
     kdfPw |-> Undef, kdfSalt |-> Undef,    \* the arguments pbkdf2 was invoked with
     kdfErr |-> NoErr,     \* the error pbkdf2 reported
     cbCount |-> 0,        \* how often the caller's callback was invoked
     cbSync |-> FALSE,     \* it was invoked before hasher returned
     cbErr |-> NoErr, cbPw |-> Undef, cbSalt |-> Undef, cbHash |-> Undef]

Pending == {"genPass", "genSalt", "derive"}

InFlight(o) == \E c \in Calls : call[c].obj = o /\ call[c].pc \in Pending
Allocated(o) == \E c \in Calls : call[c].obj = o

\* Mutant of classify: the salt test never sees a string (typeof opts.salt
\* compared with a misspelt type name), so the direct branch is never taken.
classify_noDirect(R) ==
    IF R.password.t # "string" THEN "full" ELSE "partial"

\* The branch of hasher: typeof opts.password !== 'string', else
\* typeof opts.salt !== 'string', else the direct path.
\* Mutant of classify: a salt that is a string is used as supplied, whether
\* or not there is a password string.
classify_saltFirst(R) ==
    IF R.salt.t = "string" THEN "direct"
    ELSE IF R.password.t # "string" THEN "full"
    ELSE "partial"

classify(R) ==
    IF R.password.t # "string" THEN "full"
    ELSE IF R.salt.t # "string" THEN "partial"
    ELSE "direct"

\* The arguments of one invocation of a callback (err, password, salt, hash).
CbArgs(e, p, s, h) == [err |-> e, pw |-> p, salt |-> s, hash |-> h]

\* The caller's callback is invoked.
Invoke(cr, a, sync) ==
    [cr EXCEPT !.pc = "done", !.cbCount = @ + 1, !.cbSync = sync,
               !.cbErr = a.err, !.cbPw = a.pw, !.cbSalt = a.salt, !.cbHash = a.hash]

\* fastfall's continuation after the last step, and after any step that
\* reports an error: the pipeline's callback gets the error alone, or the
\* last step's results.
work(a) == IF a.err # NoErr THEN CbArgs(a.err, Undef, Undef, Undef) ELSE a

\* genPass: if (buffer) opts.password = buffer.toString('base64')
genPassStore(R, r) ==
    IF r.err = NoErr THEN [R EXCEPT !.password = Str(Base64Encode(r.buf))] ELSE R

\* Mutant of genSaltStore: the buffer is stored only when the request holds
\* no salt at all (if (!opts.salt) opts.salt = buf).
genSaltStore_keepsSupplied(R, r, build_) ==
    IF r.err = NoErr /\ R.salt.t = "undefined" THEN [R EXCEPT !.salt = Buf(r.buf)] ELSE R

\* genSalt: index.ts assigns the callback's buffer whatever the outcome
\* (undefined on an error); the compiled build assigns inside the try.
genSaltStore(R, r, build_) ==
    IF r.err = NoErr THEN [R EXCEPT !.salt = Buf(r.buf)]
    ELSE IF build_ = "src" THEN [R EXCEPT !.salt = Undef]
    ELSE R

\* The digest pbkdf2 runs with: genHashWithDigest passes digest;
\* genHashWithoutDigest leaves it to the primitive's default in index.ts and
\* passes it in the compiled build.
kdfDigest ==
    IF supportsDigest \/ impl = "dist" THEN digest.s ELSE "sha1"

\* genHash: crypto.pbkdf2(opts.password, opts.salt, iterations, keyLength, digest, cb)
\* is started with the request's fields as they are now.
genHash(R, cr) ==
    [cr EXCEPT !.pc = "derive", !.steps = Append(@, "genHash"),
               !.kdfPw = R.password, !.kdfSalt = R.salt]

Out(R, cr) == [R |-> R, cr |-> cr]

\* Mutant of stepError: the step calls cb(null, opts) whatever the random
\* source reported.
stepError_dropped(r) == NoErr

\* cb(err, opts): the error a generate step hands to its continuation is the
\* one the random source reported.
stepError(r) == r.err

\* Mutant of genSaltBytes: genSalt asks for 10 bytes, as genPass does.
genSaltBytes_asGenPass == PassBytes

\* crypto.randomBytes(saltLength, ...): the number of bytes genSalt asks for.
genSaltBytes == saltLength.n

\* Mutant of AfterGenSalt: the pipeline does not stop at an error; the
\* callback gets it and genHash is started all the same.
AfterGenSalt_continues(R, cr, r, sync) ==
    LET R2 == genSaltStore(R, r, impl)
        cr2 == [cr EXCEPT !.drawnSalt = IF r.err = NoErr THEN Buf(r.buf) ELSE Undef,
                          !.rndErr = r.err,
                          !.rndErrStep = IF r.err = NoErr THEN "none" ELSE "genSalt"]
    IN  IF stepError(r) # NoErr
        THEN Out(R2, genHash(R2, Invoke(cr2, work(CbArgs(stepError(r), ObjRef, Undef, Undef)), sync)))
        ELSE Out(R2, genHash(R2, cr2))

\* genSalt's randomBytes(saltLength) has answered r.
AfterGenSalt(R, cr, r, sync) ==
    LET R2 == genSaltStore(R, r, impl)
        cr2 == [cr EXCEPT !.drawnSalt = IF r.err = NoErr THEN Buf(r.buf) ELSE Undef,
                          !.rndErr = r.err,
                          !.rndErrStep = IF r.err = NoErr THEN "none" ELSE "genSalt"]
    IN  IF stepError(r) # NoErr
        THEN Out(R2, Invoke(cr2, work(CbArgs(stepError(r), ObjRef, Undef, Undef)), sync))
        ELSE Out(R2, genHash(R2, cr2))

\* genSalt is called: index.ts leaves randomBytes pending, the compiled
\* build draws at once.
StartGenSalt(R, cr, sync) ==
    LET cr2 == [cr EXCEPT !.steps = Append(@, "genSalt")]
    IN  IF impl = "src" THEN { Out(R, [cr2 EXCEPT !.pc = "genSalt"]) }
        ELSE { AfterGenSalt(R, cr2, r, sync) : r \in RandOutcomes(genSaltBytes) }

\* Mutant of AfterGenPass: the pipeline lists genPass and genHash only, so
\* genHash follows genPass at once.
AfterGenPass_skipsSalt(R, cr, r, sync) ==
    LET R2 == genPassStore(R, r)
        cr2 == [cr EXCEPT !.drawnPass = IF r.err = NoErr THEN Buf(r.buf) ELSE Undef,
                          !.rndErr = r.err,
                          !.rndErrStep = IF r.err = NoErr THEN "none" ELSE "genPass"]
    IN  IF stepError(r) # NoErr
        THEN { Out(R2, Invoke(cr2, work(CbArgs(stepError(r), ObjRef, Undef, Undef)), sync)) }
        ELSE { Out(R2, genHash(R2, cr2)) }

\* genPass's randomBytes(10) has answered r.
AfterGenPass(R, cr, r, sync) ==
    LET R2 == genPassStore(R, r)
        cr2 == [cr EXCEPT !.drawnPass = IF r.err = NoErr THEN Buf(r.buf) ELSE Undef,
                          !.rndErr = r.err,
                          !.rndErrStep = IF r.err = NoErr THEN "none" ELSE "genPass"]
    IN  IF stepError(r) # NoErr
        THEN { Out(R2, Invoke(cr2, work(CbArgs(stepError(r), ObjRef, Undef, Undef)), sync)) }
        ELSE StartGenSalt(R2, cr2, sync)

StartGenPass(R, cr, sync) ==
    LET cr2 == [cr EXCEPT !.steps = Append(@, "genPass")]
    IN  IF impl = "src" THEN { Out(R, [cr2 EXCEPT !.pc = "genPass"]) }
        ELSE UNION { AfterGenPass(R, cr2, r, sync) : r \in RandOutcomes(PassBytes) }

\* Mutant of hasher: the direct branch decodes the salt into a copy of the
\* request and leaves the caller's object as it was given.
hasher_decodesCopy(R, cr) ==
    LET cr2 == [cr EXCEPT !.path = classify(R), !.inPw = R.password, !.inSalt = R.salt]
    IN  IF classify(R) = "full" THEN StartGenPass(R, cr2, TRUE)
        ELSE IF classify(R) = "partial" THEN StartGenSalt(R, cr2, TRUE)
        ELSE LET R2 == [R EXCEPT !.salt = Buf(Base64Decode(R.salt.v))]
             IN  { Out(R, genHash(R2, cr2)) }

\* Mutant of hasher: the direct branch passes the salt on as the base64
\* string it was given.
hasher_noDecode(R, cr) ==
    LET cr2 == [cr EXCEPT !.path = classify(R), !.inPw = R.password, !.inSalt = R.salt]
    IN  IF classify(R) = "full" THEN StartGenPass(R, cr2, TRUE)
        ELSE IF classify(R) = "partial" THEN StartGenSalt(R, cr2, TRUE)
        ELSE { Out(R, genHash(R, cr2)) }

\* hasher(opts, callback) up to its return, opts holding R.
hasher(R, cr) ==
    LET cr2 == [cr EXCEPT !.path = classify(R), !.inPw = R.password, !.inSalt = R.salt]
    IN  IF classify(R) = "full" THEN StartGenPass(R, cr2, TRUE)
        ELSE IF classify(R) = "partial" THEN StartGenSalt(R, cr2, TRUE)
        ELSE LET R2 == [R EXCEPT !.salt = Buf(Base64Decode(R.salt.v))]
             IN  { Out(R2, genHash(R2, cr2)) }


\* ------------------------------------------------------------ derive-hash callback
\* Mutant of toStringBase64: toString() without the encoding argument gives
\* the bytes as text.
toStringBase64_noEncoding(x) == IF x.t = "buffer" THEN Str(x.v) ELSE x

\* value.toString('base64'): a Buffer encodes its bytes; a string returns itself.
toStringBase64(x) == IF x.t = "buffer" THEN Str(Base64Encode(x.v)) ELSE x

\* Outcomes of the pending pbkdf2: the derived key, as a Buffer or as a binary
\* string, or an error and no key.
KdfOutcomes(cr) ==
    LET d == Derive(cr.kdfPw.v, cr.kdfSalt.v, iterations.n, keyLength.n, kdfDigest)
    IN  {[err |-> NoErr, hash |-> Buf(d)], [err |-> NoErr, hash |-> Str(d)]}
        \cup {[err |-> e, hash |-> Undef] : e \in KdfErrors}

\* Mutant of genHashCallback: the key is encoded only when there is one
\* (hash && hash.toString('base64')), so an error reaches cb with values.
genHashCallback_guarded(R, k) ==
    LET hash == IF k.hash.t = "string" THEN Buf(k.hash.v) ELSE k.hash
    IN  IF R.salt.t = "undefined"
        THEN [threw |-> TRUE, args |-> CbArgs(k.err, Undef, Undef, Undef)]
        ELSE [threw |-> FALSE,
              args |-> CbArgs(k.err, R.password, toStringBase64(R.salt),
                              IF hash.t = "undefined" THEN Undef ELSE toStringBase64(hash))]

\* function (err, hash) { if (typeof hash === 'string') hash = Buffer.from(hash, 'binary');
\*   cb(err, opts.password, opts.salt.toString('base64'), hash.toString('base64')) }
\* Calling toString on undefined throws a TypeError before cb is reached.
genHashCallback(R, k) ==
    LET hash == IF k.hash.t = "string" THEN Buf(k.hash.v) ELSE k.hash
    IN  IF R.salt.t = "undefined" \/ hash.t = "undefined"
        THEN [threw |-> TRUE, args |-> CbArgs(k.err, Undef, Undef, Undef)]
        ELSE [threw |-> FALSE,
              args |-> CbArgs(k.err, R.password, toStringBase64(R.salt), toStringBase64(hash))]

\* ------------------------------------------------------------ actions
Init ==
    /\ supportsDigest \in BOOLEAN
    /\ impl \in {"src", "dist"}
    /\ built = "no"
    /\ options = NoOptions
    /\ saltLength = UndefN /\ iterations = UndefN /\ keyLength = UndefN
    /\ digest = UndefS
    /\ objs = [o \in Objs |-> [password |-> Undef, salt |-> Undef]]
    /\ call = [c \in Calls |-> IdleCall]

Build == \E opts \in OptionInputs : build(opts)

\* What a caller puts in a request.
PwInputs == {Undef, Str(<<104, 117>>)}
\* Salts: none, the strings "AQI=" and "AQJ=" (both decode to the bytes 1, 2;
\* the second has a non-zero bit after its last byte), and raw bytes.
SaltInputs == {Undef, Str(<<65, 81, 73, 61>>), Str(<<65, 81, 74, 61>>), Buf(<<7, 7>>)}

\* Calls are numbered in the order they are made, objects in the order they
\* are first used.
CanCall(c, o) ==
    /\ built = "ok" /\ WellFormed
    /\ call[c].pc = "idle"
    /\ IF c = 1 THEN TRUE ELSE call[c - 1].pc # "idle"
    /\ IF o = 1 THEN TRUE ELSE Allocated(o - 1)

Enter(c, o, R) ==
    /\ \E out \in hasher(R, [IdleCall EXCEPT !.obj = o]) :
          /\ objs' = [objs EXCEPT ![o] = out.R]
          /\ call' = [call EXCEPT ![c] = out.cr]
    /\ UNCHANGED cfgVars

\* The caller passes a request it has just filled in.
Call(c, o) ==
    /\ CanCall(c, o)
    /\ ~InFlight(o)
    /\ \E pw \in PwInputs, salt \in SaltInputs :
          Enter(c, o, [password |-> pw, salt |-> salt])

\* The caller passes, as it is, a request object an earlier call has finished with.
CallAgain(c, o) ==
    /\ CanCall(c, o)
    /\ Allocated(o) /\ ~InFlight(o)
    /\ Enter(c, o, objs[o])

\* The caller passes, as it is, a request object another call is still working on.
CallShared(c, o) ==
    /\ CanCall(c, o)
    /\ InFlight(o)
    /\ Enter(c, o, objs[o])

\* index.ts: the callback of genPass's randomBytes runs.
RandomPassDone(c) ==
    /\ call[c].pc = "genPass"
    /\ \E r \in RandOutcomes(PassBytes) :
          \E out \in AfterGenPass(objs[call[c].obj], call[c], r, FALSE) :
             /\ objs' = [objs EXCEPT ![call[c].obj] = out.R]
             /\ call' = [call EXCEPT ![c] = out.cr]
    /\ UNCHANGED cfgVars

\* index.ts: the callback of genSalt's randomBytes runs.
RandomSaltDone(c) ==
    /\ call[c].pc = "genSalt"
    /\ \E r \in RandOutcomes(genSaltBytes) :
          LET out == AfterGenSalt(objs[call[c].obj], call[c], r, FALSE)
          IN  /\ objs' = [objs EXCEPT ![call[c].obj] = out.R]
              /\ call' = [call EXCEPT ![c] = out.cr]
    /\ UNCHANGED cfgVars

\* The callback of pbkdf2 runs.  On the direct path cb is the caller's
\* callback; on the pipeline paths it is fastfall's continuation.
PbkdfDone(c) ==
    /\ call[c].pc = "derive"
    /\ \E k \in KdfOutcomes(call[c]) :
          LET res == genHashCallback(objs[call[c].obj], k)
              cr1 == [call[c] EXCEPT !.kdfErr = k.err]
          IN  call' = [call EXCEPT ![c] =
                  IF res.threw THEN [cr1 EXCEPT !.pc = "threw"]
                  ELSE IF cr1.path = "direct" THEN Invoke(cr1, res.args, FALSE)
                  ELSE Invoke(cr1, work(res.args), FALSE)]
    /\ UNCHANGED objs
    /\ UNCHANGED cfgVars

Next ==
    \/ Build
    \/ \E c \in Calls, o \in Objs : Call(c, o)
    \/ \E c \in Calls, o \in Objs : CallAgain(c, o)
    \/ \E c \in Calls : RandomPassDone(c)
    \/ \E c \in Calls : RandomSaltDone(c)
    \/ \E c \in Calls : PbkdfDone(c)

Spec == Init /\ [][Next]_vars

\* The same program with a caller that also passes one request object to
\* calls that overlap.
NextShared ==
    \/ Next
    \/ \E c \in Calls, o \in Objs : CallShared(c, o)

SpecShared == Init /\ [][NextShared]_vars


\* ------------------------------------------------------------ claims
Finished(c) == call[c].pc \in {"done", "threw"}
Delivered(c) == call[c].cbCount > 0
DeliveredOk(c) == Delivered(c) /\ call[c].cbErr = NoErr
NoValues(c) == call[c].cbPw = Undef /\ call[c].cbSalt = Undef /\ call[c].cbHash = Undef

\* C1: every call of hasher invokes its callback exactly once, whatever the
\* path and whether the random source and pbkdf2 succeed or report an error:
\* never more than once, and once by the time the call has nothing pending.
C1_CallbackExactlyOnce ==
    \A c \in Calls :
        /\ call[c].cbCount <= 1
        /\ Finished(c) => call[c].cbCount = 1

\* C2: when the random source reports an error in genPass or genSalt, the
\* callback gets that error and no password, salt or hash, the failed step is
\* the last one started, and pbkdf2 is never invoked for the call.
C2_RandomErrorAborts ==
    \A c \in Calls :
        call[c].rndErr # NoErr =>
            /\ call[c].pc = "done" /\ call[c].cbCount = 1
            /\ call[c].cbErr = call[c].rndErr /\ NoValues(c)
            /\ call[c].steps[Len(call[c].steps)] = call[c].rndErrStep
            /\ \A i \in 1..Len(call[c].steps) : call[c].steps[i] # "genHash"
            /\ call[c].kdfPw = Undef /\ call[c].kdfSalt = Undef

\* C2 witness: one call failed in genPass and another in genSalt after its
\* genPass succeeded.
C2_Witness ==
    \E c, d \in Calls :
        /\ call[c].rndErrStep = "genPass" /\ call[c].cbCount = 1
        /\ call[d].rndErrStep = "genSalt" /\ call[d].path = "full" /\ call[d].cbCount = 1

\* C3: when pbkdf2 reports an error, the callback is invoked with that error
\* and with password, salt and hash undefined, and nothing is thrown.
C3_DeriveErrorPropagated ==
    \A c \in Calls :
        call[c].kdfErr # NoErr =>
            /\ call[c].pc = "done" /\ call[c].cbCount = 1
            /\ call[c].cbErr = call[c].kdfErr /\ NoValues(c)

\* C4: every invocation of the callback carries either no error and a
\* password, salt and hash that are all strings, or an error and a password,
\* salt and hash that are all undefined.
C4_AllOrNothing ==
    \A c \in Calls :
        Delivered(c) =>
            \/ /\ call[c].cbErr = NoErr
               /\ call[c].cbPw.t = "string" /\ call[c].cbSalt.t = "string"
               /\ call[c].cbHash.t = "string"
            \/ /\ call[c].cbErr # NoErr
               /\ NoValues(c)

\* C4 witness: a direct-path call delivered a result and another call
\* delivered an error.
C4_Witness ==
    \E c, d \in Calls :
        /\ call[c].path = "direct" /\ DeliveredOk(c)
        /\ Delivered(d) /\ call[d].cbErr # NoErr

\* C5: a call whose request holds a password string and no salt string
\* delivers, on success, the supplied password (genPass never runs) and the
\* encoding of the bytes its own genSalt drew from the random source.
C5_PasswordKeptSaltFresh ==
    \A c \in Calls :
        (call[c].inPw.t = "string" /\ call[c].inSalt.t # "string" /\ DeliveredOk(c)) =>
            /\ call[c].cbPw = call[c].inPw
            /\ \A i \in 1..Len(call[c].steps) : call[c].steps[i] # "genPass"
            /\ call[c].drawnSalt.t = "buffer"
            /\ call[c].cbSalt = Str(Base64Encode(call[c].drawnSalt.v))

\* C5 witness: such a call succeeded although the request held a salt that
\* was no string.
C5_Witness ==
    \E c \in Calls :
        /\ call[c].inPw.t = "string" /\ call[c].inSalt.t = "buffer" /\ DeliveredOk(c)

\* C6: two calls given the same password string and the same base64 salt
\* string deliver the same password, salt and hash, and these are determined
\* by the password, the salt and the configuration alone.
C6_Deterministic ==
    \A c, d \in Calls :
        (/\ call[c].inPw.t = "string" /\ call[c].inSalt.t = "string" /\ DeliveredOk(c)
         /\ call[d].inPw = call[c].inPw /\ call[d].inSalt = call[c].inSalt /\ DeliveredOk(d))
        => /\ call[c].cbPw = call[d].cbPw
           /\ call[c].cbSalt = call[d].cbSalt
           /\ call[c].cbHash = call[d].cbHash
           /\ call[c].cbPw = call[c].inPw
           /\ call[c].cbSalt = Str(Base64Encode(Base64Decode(call[c].inSalt.v)))
           /\ call[c].cbHash =
                 Str(Base64Encode(Derive(call[c].inPw.v, Base64Decode(call[c].inSalt.v),
                                         iterations.n, keyLength.n, kdfDigest)))

\* C6 witness: two different calls with the same password and salt strings
\* have both delivered a result.
C6_Witness ==
    \E c, d \in Calls :
        /\ c # d
        /\ call[c].inPw.t = "string" /\ call[c].inSalt.t = "string" /\ DeliveredOk(c)
        /\ call[d].inPw = call[c].inPw /\ call[d].inSalt = call[c].inSalt /\ DeliveredOk(d)

\* C7: whatever request objects overlapping calls are given, each callback
\* receives a triple with hash = derive(password, decoded salt) for the
\* password and salt of that same triple.
C7_IndependentCalls ==
    \A c \in Calls :
        DeliveredOk(c) =>
            call[c].cbHash =
                Str(Base64Encode(Derive(call[c].cbPw.v, Base64Decode(call[c].cbSalt.v),
                                        iterations.n, keyLength.n, kdfDigest)))

\* C8: the callback is never invoked before hasher has returned.
C8_NeverSynchronous ==
    \A c \in Calls : Delivered(c) => ~call[c].cbSync

\* The value build should resolve an option to: the caller's where the
\* caller set it, the default otherwise.
ExpectedNumber(f, dflt) == IF f \in options.has THEN Num(options[f]) ELSE Num(dflt)
ExpectedDigest == IF "digest" \in options.has THEN StrS(options.digest) ELSE StrS("sha1")

\* C9: build resolves each option to the caller's value when the caller
\* supplies it and to its default (64, 10000, 128, "sha1") when not, with no
\* configuration object and with one that sets only some options.
C9_DefaultsResolved ==
    built = "ok" =>
        /\ saltLength = ExpectedNumber("saltLength", DefaultSaltLength)
        /\ iterations = ExpectedNumber("iterations", DefaultIterations)
        /\ keyLength = ExpectedNumber("keyLength", DefaultKeyLength)
        /\ digest = ExpectedDigest

\* C10: build throws exactly when the caller requests a digest other than
\* "sha1" and the runtime cannot pass a digest to pbkdf2.
C10_ThrowsIffUnsupportedDigest ==
    built # "no" =>
        ((built = "threw") <=>
            ("digest" \in options.has /\ options.digest # "sha1" /\ ~supportsDigest))


\* C11: on success the delivered hash decodes to exactly keyLength bytes, and
\* a salt the call generated (the request held no password string or no salt
\* string) decodes to exactly saltLength bytes.
C11_LengthContracts ==
    \A c \in Calls :
        DeliveredOk(c) =>
            /\ call[c].cbHash.t = "string"
            /\ Len(Base64Decode(call[c].cbHash.v)) = keyLength.n
            /\ (call[c].inPw.t # "string" \/ call[c].inSalt.t # "string") =>
                  /\ call[c].cbSalt.t = "string"
                  /\ Len(Base64Decode(call[c].cbSalt.v)) = saltLength.n

\* C11 witness: a call that generated its salt has delivered a result under a
\* configuration whose salt is not as long as a generated password's bytes.
C11_Witness ==
    \E c \in Calls :
        /\ DeliveredOk(c) /\ call[c].inSalt.t # "string"
        /\ call[c].drawnSalt.t = "buffer" /\ saltLength.n # PassBytes


\* A letter of the standard base64 alphabet.
IsBase64Letter(ch) == \E i \in 1..64 : Alphabet(i) = ch

\* A well-formed base64 string: letters in groups of four, the last group
\* ending in no, one or two '='.
ValidBase64(s) ==
    /\ Len(s) % 4 = 0
    /\ \A i \in 1..Len(s) :
          \/ IsBase64Letter(s[i])
          \/ /\ s[i] = PadChar
             /\ i >= Len(s) - 1
             /\ s[Len(s)] = PadChar

\* A base64 string an encoder produces: well-formed, and the bits of its last
\* letter that belong to no byte are zero.
CanonicalBase64(s) ==
    /\ ValidBase64(s)
    /\ (Len(s) > 0 /\ s[Len(s)] = PadChar) =>
          IF s[Len(s) - 1] = PadChar
          THEN unbase64(s[Len(s) - 2]) % 16 = 0
          ELSE unbase64(s[Len(s) - 1]) % 4 = 0

DirectOk(c) ==
    call[c].inPw.t = "string" /\ call[c].inSalt.t = "string" /\ DeliveredOk(c)

\* C12 as stated: on the direct path the delivered salt equals the supplied
\* salt string for every valid base64 salt string.
C12_RoundTripValid ==
    \A c \in Calls :
        (DirectOk(c) /\ ValidBase64(call[c].inSalt.v)) => call[c].cbSalt = call[c].inSalt

\* C12 amended: on the direct path the delivered salt equals the supplied
\* salt string for every canonical base64 salt string.
C12_RoundTripCanonical ==
    \A c \in Calls :
        (DirectOk(c) /\ CanonicalBase64(call[c].inSalt.v)) => call[c].cbSalt = call[c].inSalt

\* C12 witness: a direct-path call with a canonical, non-empty salt string
\* has delivered a result.
C12_Witness ==
    \E c \in Calls :
        DirectOk(c) /\ CanonicalBase64(call[c].inSalt.v) /\ Len(call[c].inSalt.v) > 0


\* The steps the decision table fixes for the request a call was given.
ExpectedSteps(c) ==
    IF call[c].inPw.t # "string" THEN << "genPass", "genSalt", "genHash" >>
    ELSE IF call[c].inSalt.t # "string" THEN << "genSalt", "genHash" >>
    ELSE << "genHash" >>

\* C13: the steps a call has started are the first steps of its row of the
\* decision table, in that order; a step that follows another started only
\* after that one got its bytes from the random source; the direct path
\* draws nothing; and the primitive that is pending belongs to the last step.
C13_StepsInOrder ==
    \A c \in Calls :
        call[c].pc # "idle" =>
            /\ Len(call[c].steps) >= 1
            /\ Len(call[c].steps) <= Len(ExpectedSteps(c))
            /\ \A i \in 1..Len(call[c].steps) :
                  /\ call[c].steps[i] = ExpectedSteps(c)[i]
                  /\ (i > 1 /\ call[c].steps[i] = "genSalt") => call[c].drawnPass.t = "buffer"
                  /\ (i > 1 /\ call[c].steps[i] = "genHash") => call[c].drawnSalt.t = "buffer"
            /\ Len(ExpectedSteps(c)) = 1 =>
                  call[c].drawnPass = Undef /\ call[c].drawnSalt = Undef
            /\ call[c].pc = "genPass" => call[c].steps[Len(call[c].steps)] = "genPass"
            /\ call[c].pc = "genSalt" => call[c].steps[Len(call[c].steps)] = "genSalt"
            /\ call[c].pc = "derive" => call[c].steps[Len(call[c].steps)] = "genHash"

\* C13 witness: a call has run all three steps and another only genHash.
C13_Witness ==
    \E c, d \in Calls :
        /\ call[c].steps = << "genPass", "genSalt", "genHash" >> /\ DeliveredOk(c)
        /\ call[d].steps = << "genHash" >> /\ DeliveredOk(d)


\* How often a call has started the step named s.
StepCount(c, s) == Cardinality({i \in 1..Len(call[c].steps) : call[c].steps[i] = s})

\* C14: a call whose callback has been invoked (or that has thrown) is at its
\* end and nothing of it changes any more: no step runs, no primitive is
\* invoked for it.  No step runs twice, so a call draws from the random
\* source at most twice and invokes pbkdf2 at most once.
C14_Terminal ==
    /\ [](\A c \in Calls :
            /\ Delivered(c) => call[c].pc = "done"
            /\ StepCount(c, "genPass") <= 1
            /\ StepCount(c, "genSalt") <= 1
            /\ StepCount(c, "genHash") <= 1)
    /\ [][\A c \in Calls : Finished(c) => call'[c] = call[c]]_vars

\* C14 witness: a call has delivered an error and a later call on the same
\* request object has then run to its end.
C14_Witness ==
    \E c, d \in Calls :
        /\ c < d /\ call[c].obj = call[d].obj
        /\ Delivered(c) /\ call[c].cbErr # NoErr
        /\ DeliveredOk(d)


\* C15: whenever pbkdf2 has been invoked for a call, it was given a password
\* that is a string and a salt that is a raw byte sequence, on every path.
C15_KdfArguments ==
    \A c \in Calls :
        StepCount(c, "genHash") > 0 =>
            /\ call[c].kdfPw.t = "string"
            /\ call[c].kdfSalt.t = "buffer"

\* C15 witness: pbkdf2 has been invoked on the direct path, with the bytes
\* the supplied salt string decodes to, and on the full pipeline.
C15_Witness ==
    \E c, d \in Calls :
        /\ call[c].path = "direct" /\ call[c].pc = "derive"
        /\ call[c].kdfSalt = Buf(Base64Decode(call[c].inSalt.v))
        /\ call[d].path = "full" /\ call[d].pc = "derive"


\* The salt a call delivered and derived from is the one it drew itself.
FreshSalt(c) ==
    /\ call[c].drawnSalt.t = "buffer"
    /\ call[c].kdfSalt = call[c].drawnSalt
    /\ call[c].cbSalt = Str(Base64Encode(call[c].drawnSalt.v))

\* C16: a request without a password string takes the full pipeline whatever
\* its salt field holds, and a request with a password string and a salt that
\* is not a string takes the generate-salt path; in both, a call that
\* delivers a result derived it from, and delivers, the salt it drew, and in
\* the first the password it delivers is the one it drew.
C16_MustGenerate ==
    \A c \in Calls :
        /\ (call[c].pc # "idle" /\ call[c].inPw.t # "string") =>
              /\ call[c].path = "full"
              /\ call[c].steps[1] = "genPass"
              /\ DeliveredOk(c) =>
                    /\ call[c].steps = <<"genPass", "genSalt", "genHash">>
                    /\ call[c].drawnPass.t = "buffer"
                    /\ call[c].cbPw = Str(Base64Encode(call[c].drawnPass.v))
                    /\ call[c].kdfPw = call[c].cbPw
                    /\ FreshSalt(c)
        /\ (call[c].pc # "idle" /\ call[c].inPw.t = "string"
                                /\ call[c].inSalt.t # "string") =>
              /\ call[c].path = "partial"
              /\ call[c].steps[1] = "genSalt"
              /\ DeliveredOk(c) =>
                    /\ call[c].steps = <<"genSalt", "genHash">>
                    /\ call[c].cbPw = call[c].inPw
                    /\ FreshSalt(c)

\* C16 witness: a request with no password and a base64 salt string, and a
\* request with a password and a salt given as raw bytes, have both delivered
\* a result whose salt differs from the supplied one.
C16_Witness ==
    \E c, d \in Calls :
        /\ DeliveredOk(c) /\ call[c].inPw.t # "string" /\ call[c].inSalt.t = "string"
        /\ Base64Decode(call[c].cbSalt.v) # Base64Decode(call[c].inSalt.v)
        /\ DeliveredOk(d) /\ call[d].inPw.t = "string" /\ call[d].inSalt.t = "buffer"
        /\ Base64Decode(call[d].cbSalt.v) # call[d].inSalt.v


\* No call has been made with the request object of call c since c.
NoLaterCall(c) == \A d \in Calls : d > c => call[d].obj # call[c].obj

\* Call d is made in this step with the request object of call c as c left it.
MadeAgain(c, d) ==
    /\ call[d].pc = "idle" /\ call'[d].pc # "idle"
    /\ call'[d].obj = call[c].obj
    /\ call'[d].inPw = objs[call[c].obj].password
    /\ call'[d].inSalt = objs[call[c].obj].salt

\* C17: the hasher works on the caller's request object and leaves it changed:
\* after a call that delivered a result, the object's password is the
\* delivered password and its salt is the raw byte sequence derived from,
\* whose base64 encoding is the delivered salt. A call then made with the
\* object of a direct-path call, as that call left it, takes the
\* generate-salt path.
C17_RequestMutated ==
    /\ [](\A c \in Calls :
            (DeliveredOk(c) /\ NoLaterCall(c)) =>
                /\ objs[call[c].obj].password = call[c].cbPw
                /\ objs[call[c].obj].salt.t = "buffer"
                /\ objs[call[c].obj].salt = call[c].kdfSalt
                /\ call[c].cbSalt = Str(Base64Encode(objs[call[c].obj].salt.v)))
    /\ [][\A c, d \in Calls :
            (c < d /\ DeliveredOk(c) /\ NoLaterCall(c) /\ call[c].path = "direct"
                   /\ MadeAgain(c, d)) =>
                /\ call'[d].path = "partial"
                /\ call'[d].inSalt.t = "buffer"
                /\ call'[d].steps[1] = "genSalt"]_vars

\* C17 witness: after a direct-path call delivered a result, a second call
\* entered with the same object holding the decoded salt bytes, drew a new
\* salt and delivered a result with it.
C17_Witness ==
    \E c, d \in Calls :
        /\ c < d /\ call[d].obj = call[c].obj
        /\ DeliveredOk(c) /\ call[c].path = "direct"
        /\ call[d].inPw = call[c].cbPw
        /\ call[d].inSalt = Buf(Base64Decode(call[c].inSalt.v))
        /\ call[d].path = "partial" /\ DeliveredOk(d)
        /\ objs[call[d].obj].salt = call[d].drawnSalt
        /\ call[d].cbSalt # call[c].cbSalt

====
